---- MODULE Spec2Model ----
(***************************************************************************)
(* Model of candictl/pkg/kubernetes/actions/converge/node.go: the          *)
(* node-group upsert and delete operations, the node readiness waits, the  *)
(* read of the node templates and the wait for the cloud config with its   *)
(* log-streaming goroutine, each an attempt closure driven by the bounded  *)
(* retry executor (retry.StartLoop).  Every call to the cluster API is one *)
(* atomic step; the API may answer any call with a transient error.        *)
(***************************************************************************)
EXTENDS Integers, Sequences, FiniteSets, TLC

VARIABLES
    nodegroups,   \* cluster: node-group name -> object (or Absent)
    nodes,        \* cluster: node name -> node object (or NoNode)
    op,           \* per invocation: the exposed function called and its arguments
    pc,           \* per invocation: position in the retry loop / attempt closure
    attempt,      \* per invocation: the executor's loop counter i (1-based)
    lastErr,      \* per invocation: error returned by the latest attempt
    ret,          \* per invocation: value returned to the caller (once pc = "done")
    val,          \* per invocation: variable captured by the closure (success value)
    local,        \* per invocation: closure-local data of the attempt in progress
    calls,        \* per invocation: API calls issued by the current/latest attempt
    sleeps,       \* per invocation: sleeps taken by the executor in this call
    invoked,      \* per invocation: times the attempt closure was invoked in this call
    reported,     \* per invocation: per-attempt progress reports written by the executor
    callNo,       \* per invocation: which successive call of the caller this is
    hist,         \* per invocation: outcome of every returned call, in order
    faulted,      \* whether the API has answered some call with a transient error
    ngs0,         \* the node-groups in the cluster when the first call started
    secrets,      \* cluster: node-group name -> its manual-bootstrap secret (or NoSecret)
    ctxDone,      \* per invocation: whether cancel() has closed ctx.Done()
    spc,          \* per invocation: position of the log-streaming goroutine
    lateFetches   \* per invocation: streamer fetches begun after cancel()

vars == <<nodegroups, nodes, op, pc, attempt, lastErr, ret, val, local, calls,
          sleeps, invoked, reported, callNo, hist, faulted, ngs0,
          secrets, ctxDone, spc, lateFetches>>

clusterVars == <<nodegroups, nodes>>

\* The state only GetCloudConfig reads or writes.
cloudVars == <<secrets, ctxDone, spc, lateFetches>>

(***************************************************************************)
(* Bounds of the model.                                                    *)
(***************************************************************************)
MaxCalls == 2        \* successive calls one caller makes
MaxPolicy == 6       \* largest maxAttempts tried for the generic executor run
MaxDesired == 3      \* largest desiredReadyNodes tried
MaxLateFetches == 2  \* cap of the count of streamer fetches begun after cancel()

Procs == {1, 2}

(***************************************************************************)
(* Attempt budgets of the exposed functions.                               *)
(***************************************************************************)
CreateNodeGroupAttempts == 45
DeleteNodeAttempts == 45
DeleteNodeGroupAttempts == 45
WaitNodesAttempts == 100
WaitNodesListAttempts == 100
WaitSingleNodeAttempts == 100
GetNodeGroupTemplatesAttempts == 10
GetCloudConfigAttempts == 45

(***************************************************************************)
(* Errors.  Nil is Go's nil error.                                         *)
(***************************************************************************)
Err(k) == [kind |-> k]
Nil == Err("nil")
AlreadyExists == Err("AlreadyExists")
NotFound == Err("NotFound")
Invalid == Err("Invalid")
Transient == Err("Transient")   \* any other API failure (timeout, 5xx, ...)

IsAlreadyExists(e) == e = AlreadyExists
IsNotFound(e) == e = NotFound

(***************************************************************************)
(* Node-group objects and declarations.                                    *)
(***************************************************************************)
NgNames == {"ng-1", "ng-2"}
Keys == {"nodeType", "nodeTemplate"}
None == "none"                      \* the key is not present in the document
FieldVals == [nodeType : {None, "Cloud", "Static"}, nodeTemplate : {None, "t1", "t2"}]

Absent == [exists |-> FALSE, spec |-> [nodeType |-> None, nodeTemplate |-> None]]
Object(s) == [exists |-> TRUE, spec |-> s]

\* The declarations a caller passes (data map[string]interface{}).
DocSpecs == {s \in FieldVals : s.nodeType # None}
Docs == [name : NgNames, spec : DocSpecs]

\* Objects other actors may have left in the cluster before the call.
InitSpecs == {[nodeType |-> "Cloud", nodeTemplate |-> "t1"],
              [nodeType |-> "Static", nodeTemplate |-> None],
              [nodeType |-> None, nodeTemplate |-> "t2"]}
InitObjects == {Absent} \cup {Object(s) : s \in InitSpecs}

\* doc.GetName()
GetName(doc) == doc.name

\* doc.MarshalJSON(): the JSON text of the declaration.  It is produced by the
\* encoder Create has already run on the same document in the same attempt,
\* so it cannot fail once Create has reached the server.
MarshalJSON(doc) == [err |-> Nil, content |-> [name |-> doc.name, spec |-> doc.spec]]

\* RFC 7386 merge patch on the modelled fields: a key present in the patch
\* replaces the object's value, a key missing from the patch is kept.
MergeField(old, new) == IF new = None THEN old ELSE new

MergePatch(obj, content) ==
    Object([nodeType     |-> MergeField(obj.spec.nodeType, content.spec.nodeType),
            nodeTemplate |-> MergeField(obj.spec.nodeTemplate, content.spec.nodeTemplate)])

(***************************************************************************)
(* The manual-bootstrap secrets of d8-cloud-instance-manager, one per      *)
(* node-group; data is the bytes under the key "cloud-config" (none when   *)
(* the key is missing).                                                    *)
(***************************************************************************)
NoBytes == <<>>
SecretData == {NoBytes, <<77>>, <<77, 97>>, <<77, 97, 110, 33>>}
NoSecret == [exists |-> FALSE, data |-> NoBytes]
Secret(d) == [exists |-> TRUE, data |-> d]

(***************************************************************************)
(* The cluster API as the closures consume it.  Each operator gives the    *)
(* answers the server may return for a call in the current cluster state.  *)
(***************************************************************************)
\* Dynamic().Resource(nodegroups).Create(&doc)
CreateResults(ngs, doc) ==
    IF ngs[doc.name].exists THEN {AlreadyExists, Transient} ELSE {Nil, Transient}

\* The object the server stores for a successful Create(&doc).
CreatedObject(doc) == Object(doc.spec)

\* Dynamic().Resource(nodegroups).Patch(name, MergePatchType, content)
PatchResults(ngs, name, content) ==
    IF ~ngs[name].exists THEN {NotFound, Transient}
    ELSE IF content.name # name THEN {Invalid, Transient}
    ELSE {Nil, Transient}

(***************************************************************************)
(* Invocations.                                                            *)
(***************************************************************************)
NoOp == [kind |-> "none"]
NoVal == [v |-> "none"]

\* nodeTemplates := make(map[string]map[string]interface{})
NoTemplates == [v |-> "templates", map |-> <<>>]

\* var cloudData string
EmptyString == [v |-> "string", s |-> <<>>]

\* The variable the closure captures, as declared before the executor runs.
ZeroVal(o) ==
    IF o.kind = "GetNodeGroupTemplates" THEN NoTemplates
    ELSE IF o.kind = "GetCloudConfig" THEN EmptyString
    ELSE NoVal
CreateNodeGroupOp(n, d) == [kind |-> "CreateNodeGroup", nodeGroupName |-> n, doc |-> d]

\* Faulty variant: every exposed function passes the same budget.
MaxAttemptsUniform(o) == IF o.kind = "Run" THEN o.maxAttempts ELSE CreateNodeGroupAttempts

\* maxAttempts each exposed function passes to the executor.
MaxAttempts(o) ==
    CASE o.kind = "CreateNodeGroup" -> CreateNodeGroupAttempts
      [] o.kind = "DeleteNode" -> DeleteNodeAttempts
      [] o.kind = "DeleteNodeGroup" -> DeleteNodeGroupAttempts
      [] o.kind = "WaitForNodesBecomeReady" -> WaitNodesAttempts
      [] o.kind = "WaitForNodesListBecomeReady" -> WaitNodesListAttempts
      [] o.kind = "WaitForSingleNodeBecomeReady" -> WaitSingleNodeAttempts
      [] o.kind = "GetNodeGroupTemplates" -> GetNodeGroupTemplatesAttempts
      [] o.kind = "GetCloudConfig" -> GetCloudConfigAttempts
      [] o.kind = "Run" -> o.maxAttempts
      [] OTHER -> 1

\* retry.StartLoop reports every attempt; a silent policy (StartSilentLoop,
\* used by GetCloudConfig) does not.
Silent(o) == (o.kind = "Run" /\ o.silent) \/ o.kind = "GetCloudConfig"

(***************************************************************************)
(* Bounded retry executor: run(label, policy, attempt).                    *)
(***************************************************************************)
Outcome(p, e) == [ret |-> e, ngs |-> nodegroups', nds |-> nodes']

\* run returns e to the caller.
Finish(p, e) ==
    /\ pc' = [pc EXCEPT ![p] = "done"]
    /\ ret' = [ret EXCEPT ![p] = e]
    /\ hist' = [hist EXCEPT ![p] = Append(@, Outcome(p, e))]

\* Faulty variant: the budget is compared one attempt too late.
ExhaustedOneLate(o, i) == i > MaxAttempts(o)

\* Whether the executor gives up after a failed attempt number i.
Exhausted(o, i) == i >= MaxAttempts(o)

\* Faulty variant: the executor sleeps after every attempt, also after the
\* successful and after the final one.
AttemptReturnsSleepsAlways(p, e) ==
    /\ lastErr' = [lastErr EXCEPT ![p] = e]
    /\ reported' = [reported EXCEPT ![p] = IF Silent(op[p]) THEN @ ELSE @ + 1]
    /\ sleeps' = [sleeps EXCEPT ![p] = @ + 1]
    /\ IF e = Nil \/ Exhausted(op[p], attempt[p])
          THEN Finish(p, e)
          ELSE pc' = [pc EXCEPT ![p] = "sleep"] /\ UNCHANGED <<ret, hist>>

\* The attempt closure has returned e: success ends the run, a failure is
\* retried after a sleep unless the budget is used up, in which case the
\* error of this last attempt is returned.
AttemptReturns(p, e) ==
    /\ lastErr' = [lastErr EXCEPT ![p] = e]
    /\ reported' = [reported EXCEPT ![p] = IF Silent(op[p]) THEN @ ELSE @ + 1]
    /\ IF e = Nil
          THEN Finish(p, Nil) /\ UNCHANGED sleeps
          ELSE IF Exhausted(op[p], attempt[p])
                 THEN Finish(p, e) /\ UNCHANGED sleeps
                 ELSE /\ pc' = [pc EXCEPT ![p] = "sleep"]
                      /\ sleeps' = [sleeps EXCEPT ![p] = @ + 1]
                      /\ UNCHANGED <<ret, hist>>

\* The attempt closure continues with another API call.
AttemptContinues(p, at) ==
    /\ pc' = [pc EXCEPT ![p] = at]
    /\ UNCHANGED <<lastErr, reported, ret, hist, sleeps>>

\* The sleep between two attempts is over: the loop starts the next attempt.
Sleep(p) ==
    /\ pc[p] = "sleep"
    /\ pc' = [pc EXCEPT ![p] = "attempt"]
    /\ attempt' = [attempt EXCEPT ![p] = @ + 1]
    /\ calls' = [calls EXCEPT ![p] = <<>>]
    /\ local' = [local EXCEPT ![p] = <<>>]
    /\ UNCHANGED cloudVars
    /\ UNCHANGED <<clusterVars, op, lastErr, ret, val, sleeps, invoked, reported, callNo,
                   hist, faulted, ngs0>>

\* The caller calls the same function again with the same arguments.
Again(p) ==
    /\ pc[p] = "done"
    /\ callNo[p] < MaxCalls
    /\ callNo' = [callNo EXCEPT ![p] = @ + 1]
    /\ pc' = [pc EXCEPT ![p] = "attempt"]
    /\ attempt' = [attempt EXCEPT ![p] = 1]
    /\ sleeps' = [sleeps EXCEPT ![p] = 0]
    /\ invoked' = [invoked EXCEPT ![p] = 0]
    /\ reported' = [reported EXCEPT ![p] = 0]
    /\ lastErr' = [lastErr EXCEPT ![p] = Nil]
    /\ ret' = [ret EXCEPT ![p] = Nil]
    /\ calls' = [calls EXCEPT ![p] = <<>>]
    /\ local' = [local EXCEPT ![p] = <<>>]
    /\ val' = [val EXCEPT ![p] = ZeroVal(op[p])]
    /\ UNCHANGED cloudVars
    /\ UNCHANGED <<clusterVars, op, hist, faulted, ngs0>>

Call(verb, name, res) == [verb |-> verb, name |-> name, res |-> res]

(***************************************************************************)
(* CreateNodeGroup: the attempt closure.                                   *)
(***************************************************************************)
\* Faulty variant: AlreadyExists is not recognised, no patch is issued.
CreateBranchNoConflict(r) == IF r = Nil THEN "created" ELSE "fallthrough"

\* Faulty variant: every create error leads to the patch.
CreateBranchPatchOnAnyError(r) == IF r = Nil THEN "created" ELSE "update"

\* What the closure does with the answer to Create.
CreateBranch(r) ==
    IF r = Nil THEN "created"
    ELSE IF IsAlreadyExists(r) THEN "update"
    ELSE "fallthrough"

\* Faulty variant: the patch is addressed to the nodeGroupName argument.
PatchTargetLabel(o) == o.nodeGroupName

\* The name the merge-patch is addressed to.
PatchTarget(o) == GetName(o.doc)

Create(p) ==
    /\ pc[p] = "attempt"
    /\ op[p].kind = "CreateNodeGroup"
    /\ invoked' = [invoked EXCEPT ![p] = @ + 1]
    /\ UNCHANGED cloudVars
    /\ UNCHANGED <<nodes, op, attempt, val, local, callNo, ngs0>>
    /\ LET doc == op[p].doc IN
       \E r \in CreateResults(nodegroups, doc) :
          /\ nodegroups' = IF r = Nil
                             THEN [nodegroups EXCEPT ![doc.name] = CreatedObject(doc)]
                             ELSE nodegroups
          /\ calls' = [calls EXCEPT ![p] = Append(@, Call("create", doc.name, r))]
          /\ faulted' = (faulted \/ r = Transient)
          /\ IF CreateBranch(r) = "update"
                THEN AttemptContinues(p, "patch")
                ELSE AttemptReturns(p, Nil)     \* return nil, also on the fall-through

Patch(p) ==
    /\ pc[p] = "patch"
    /\ UNCHANGED cloudVars
    /\ UNCHANGED <<nodes, op, attempt, val, local, invoked, callNo, ngs0>>
    /\ LET m == MarshalJSON(op[p].doc)
           target == PatchTarget(op[p])
       IN IF m.err # Nil
            THEN /\ AttemptReturns(p, m.err)
                 /\ UNCHANGED <<nodegroups, calls, faulted>>
            ELSE \E r \in PatchResults(nodegroups, target, m.content) :
                    /\ nodegroups' = IF r = Nil
                                       THEN [nodegroups EXCEPT ![target] = MergePatch(@, m.content)]
                                       ELSE nodegroups
                    /\ calls' = [calls EXCEPT ![p] = Append(@, Call("patch", target, r))]
                    /\ faulted' = (faulted \/ r = Transient)
                    /\ AttemptReturns(p, r)

(***************************************************************************)
(* A generic attempt function driven by the executor: every invocation     *)
(* either succeeds with a value of its own or fails with an error of its   *)
(* own.                                                                    *)
(***************************************************************************)
RunOp(m, s) == [kind |-> "Run", maxAttempts |-> m, silent |-> s]
AttemptValue(n) == [v |-> "value", n |-> n]
AttemptError(n) == [kind |-> "AttemptError", n |-> n]

RunAttempt(p) ==
    /\ pc[p] = "attempt"
    /\ op[p].kind = "Run"
    /\ invoked' = [invoked EXCEPT ![p] = @ + 1]
    /\ UNCHANGED cloudVars
    /\ UNCHANGED <<clusterVars, op, attempt, local, calls, callNo, faulted, ngs0>>
    /\ \E ok \in BOOLEAN :
          IF ok
            THEN /\ val' = [val EXCEPT ![p] = AttemptValue(invoked'[p])]
                 /\ AttemptReturns(p, Nil)
            ELSE /\ UNCHANGED val
                 /\ AttemptReturns(p, AttemptError(invoked'[p]))

(***************************************************************************)
(* Nodes.                                                                  *)
(***************************************************************************)
NodeNames == {"n1", "n2", "n3"}
NoNode == [exists |-> FALSE, conditions |-> <<>>]
Node(c) == [exists |-> TRUE, conditions |-> c]

\* node.Status.Conditions
Cond(t, st) == [type |-> t, status |-> st]
ReadyConds == <<Cond("MemoryPressure", "False"), Cond("Ready", "True")>>
NotReadyConds == <<Cond("Ready", "False")>>
NoConds == <<>>
CondLists == {ReadyConds, NotReadyConds, NoConds}

\* The label node.deckhouse.io/group of each node.
GroupOf(n) == IF n = "n3" THEN "ng-2" ELSE "ng-1"

(***************************************************************************)
(* DeleteNode and DeleteNodeGroup: the attempt closures.                   *)
(***************************************************************************)
DeleteNodeOp(n) == [kind |-> "DeleteNode", name |-> n]
DeleteNodeGroupOp(n) == [kind |-> "DeleteNodeGroup", name |-> n]

\* Delete(name, &metav1.DeleteOptions{}) on an object that exists or not.
DeleteResults(exists) == IF exists THEN {Nil, Transient} ELSE {NotFound, Transient}

\* Faulty variant: NotFound is returned like any other error.
DeleteReturnRaw(err) == err

\* Faulty variant: every delete error is dropped.
DeleteReturnNil(err) == Nil

\* What the closure returns for the answer to Delete.
DeleteReturn(err) == IF IsNotFound(err) THEN Nil ELSE err

DeleteNode(p) ==
    /\ pc[p] = "attempt"
    /\ op[p].kind = "DeleteNode"
    /\ invoked' = [invoked EXCEPT ![p] = @ + 1]
    /\ UNCHANGED cloudVars
    /\ UNCHANGED <<nodegroups, op, attempt, val, local, callNo, ngs0>>
    /\ \E r \in DeleteResults(nodes[op[p].name].exists) :
          /\ nodes' = IF r = Nil THEN [nodes EXCEPT ![op[p].name] = NoNode] ELSE nodes
          /\ calls' = [calls EXCEPT ![p] = Append(@, Call("delete", op[p].name, r))]
          /\ faulted' = (faulted \/ r = Transient)
          /\ AttemptReturns(p, DeleteReturn(r))

DeleteNodeGroup(p) ==
    /\ pc[p] = "attempt"
    /\ op[p].kind = "DeleteNodeGroup"
    /\ invoked' = [invoked EXCEPT ![p] = @ + 1]
    /\ UNCHANGED cloudVars
    /\ UNCHANGED <<nodes, op, attempt, val, local, callNo, ngs0>>
    /\ \E r \in DeleteResults(nodegroups[op[p].name].exists) :
          /\ nodegroups' = IF r = Nil THEN [nodegroups EXCEPT ![op[p].name] = Absent]
                                        ELSE nodegroups
          /\ calls' = [calls EXCEPT ![p] = Append(@, Call("delete", op[p].name, r))]
          /\ faulted' = (faulted \/ r = Transient)
          /\ AttemptReturns(p, DeleteReturn(r))

(***************************************************************************)
(* The readiness waits: WaitForNodesBecomeReady (the nodes of a group) and *)
(* WaitForNodesListBecomeReady (a list of node names).                     *)
(***************************************************************************)
WaitNodesOp(g, d) == [kind |-> "WaitForNodesBecomeReady", nodeGroupName |-> g,
                      desiredReadyNodes |-> d]
WaitNodesListOp(l) == [kind |-> "WaitForNodesListBecomeReady", nodes |-> l]

Item(nds, n) == [name |-> n, conditions |-> nds[n].conditions]

Orderings(S) == {s \in [1..Cardinality(S) -> S] : \A i, j \in DOMAIN s : i # j => s[i] # s[j]}

\* Nodes().List(LabelSelector: "node.deckhouse.io/group=" + g): an error, or
\* the existing nodes of the group in the order the server returns them.
ListNodes(nds, g) ==
    {[err |-> Transient, items |-> <<>>]} \cup
    {[err |-> Nil, items |-> [i \in DOMAIN s |-> Item(nds, s[i])]] :
        s \in Orderings({n \in NodeNames : nds[n].exists /\ GroupOf(n) = g})}

\* Nodes().Get(n)
GetNode(nds, n) ==
    IF nds[n].exists
      THEN {[err |-> Nil, node |-> Item(nds, n)], [err |-> Transient, node |-> Item(nds, n)]}
      ELSE {[err |-> NotFound, node |-> Item(nds, n)], [err |-> Transient, node |-> Item(nds, n)]}

\* The scan of node.Status.Conditions for type Ready with status True.
IsNodeReady(node) ==
    \E i \in DOMAIN node.conditions :
        /\ node.conditions[i].type = "Ready"
        /\ node.conditions[i].status = "True"

\* readyNodes: the map keyed by node name built from the observed nodes.
ReadyNodes(items) == {items[i].name : i \in {j \in DOMAIN items : IsNodeReady(items[j])}}

\* message: "Nodes Ready <r> of <d>" and one "* <name> | <condition>" line for
\* every observed node, in the order observed.
Message(items, d) ==
    [ready |-> Cardinality(ReadyNodes(items)),
     desired |-> d,
     lines |-> [i \in DOMAIN items |->
                  [name |-> items[i].name,
                   condition |-> IF items[i].name \in ReadyNodes(items)
                                   THEN "Ready" ELSE "NotReady"]]]

\* Faulty variant: the quorum must be exceeded.
SatisfiedStrict(items, d) == Cardinality(ReadyNodes(items)) > d

\* len(readyNodes) >= desiredReadyNodes
Satisfied(items, d) == Cardinality(ReadyNodes(items)) >= d

\* Faulty variant: a fixed error text instead of the summary.
NotSatisfiedErrorGeneric(items, d) == Err("NotReadyYet")

\* fmt.Errorf(strings.TrimSuffix(message, "\n"))
NotSatisfiedError(items, d) == [kind |-> "NodesNotReady", message |-> Message(items, d)]

\* What the closure returns once the nodes are observed.
WaitResult(items, d) ==
    IF Satisfied(items, d) THEN Nil ELSE NotSatisfiedError(items, d)

WaitNodes(p) ==
    /\ pc[p] = "attempt"
    /\ op[p].kind = "WaitForNodesBecomeReady"
    /\ invoked' = [invoked EXCEPT ![p] = @ + 1]
    /\ UNCHANGED cloudVars
    /\ UNCHANGED <<clusterVars, op, attempt, val, callNo, ngs0>>
    /\ \E r \in ListNodes(nodes, op[p].nodeGroupName) :
          /\ calls' = [calls EXCEPT ![p] = Append(@, Call("list", op[p].nodeGroupName, r.err))]
          /\ faulted' = (faulted \/ r.err = Transient)
          /\ local' = [local EXCEPT ![p] = r.items]
          /\ IF r.err # Nil
                THEN AttemptReturns(p, r.err)
                ELSE AttemptReturns(p, WaitResult(r.items, op[p].desiredReadyNodes))

\* One step of the named-list closure: the next Get of the loop over the
\* names and, after the last one, the aggregation.
WaitNodesList(p) ==
    /\ pc[p] = "attempt"
    /\ op[p].kind = "WaitForNodesListBecomeReady"
    /\ invoked' = [invoked EXCEPT ![p] = IF local[p] = <<>> /\ calls[p] = <<>> THEN @ + 1 ELSE @]
    /\ UNCHANGED cloudVars
    /\ UNCHANGED <<clusterVars, op, attempt, val, callNo, ngs0>>
    /\ LET names == op[p].nodes
           desiredReadyNodes == Len(names)
           i == Len(local[p]) + 1
       IN IF names = <<>>
            THEN /\ UNCHANGED <<calls, local, faulted>>
                 /\ AttemptReturns(p, WaitResult(<<>>, desiredReadyNodes))
            ELSE \E r \in GetNode(nodes, names[i]) :
                    /\ calls' = [calls EXCEPT ![p] = Append(@, Call("get", names[i], r.err))]
                    /\ faulted' = (faulted \/ r.err = Transient)
                    /\ IF r.err # Nil
                          THEN /\ UNCHANGED local
                               /\ AttemptReturns(p, r.err)
                          ELSE /\ local' = [local EXCEPT ![p] = Append(@, r.node)]
                               /\ IF i = Len(names)
                                     THEN AttemptReturns(p, WaitResult(local'[p], desiredReadyNodes))
                                     ELSE AttemptContinues(p, "attempt")

(***************************************************************************)
(* WaitForSingleNodeBecomeReady: the attempt closure.                      *)
(***************************************************************************)
WaitSingleNodeOp(n) == [kind |-> "WaitForSingleNodeBecomeReady", nodeName |-> n]

\* fmt.Errorf("node %q is not Ready yet", nodeName)
NotReadyYet(n) == [kind |-> "NodeNotReadyYet", nodeName |-> n]

\* Faulty variant: a node that is not found ends the wait.
SingleNodeReturnNotFoundEnds(n, r) ==
    IF IsNotFound(r.err) THEN Nil
    ELSE IF r.err # Nil THEN r.err
    ELSE IF IsNodeReady(r.node) THEN Nil
    ELSE NotReadyYet(n)

\* What the closure returns for the answer r to Nodes().Get(n).
SingleNodeReturn(n, r) ==
    IF r.err # Nil THEN r.err
    ELSE IF IsNodeReady(r.node) THEN Nil
    ELSE NotReadyYet(n)

WaitSingleNode(p) ==
    /\ pc[p] = "attempt"
    /\ op[p].kind = "WaitForSingleNodeBecomeReady"
    /\ invoked' = [invoked EXCEPT ![p] = @ + 1]
    /\ UNCHANGED cloudVars
    /\ UNCHANGED <<clusterVars, op, attempt, val, callNo, ngs0>>
    /\ \E r \in GetNode(nodes, op[p].nodeName) :
          /\ calls' = [calls EXCEPT ![p] = Append(@, Call("get", op[p].nodeName, r.err))]
          /\ faulted' = (faulted \/ r.err = Transient)
          /\ local' = [local EXCEPT ![p] = IF r.err = Nil THEN <<r.node>> ELSE <<>>]
          /\ AttemptReturns(p, SingleNodeReturn(op[p].nodeName, r))

(***************************************************************************)
(* GetNodeGroupTemplates: the attempt closure.                             *)
(***************************************************************************)
GetNodeGroupTemplatesOp == [kind |-> "GetNodeGroupTemplates"]

\* An object without a "spec" map, and a nodeTemplate that is not a map.
NoSpec == [nodeType |-> "absent", nodeTemplate |-> "absent"]
Scalar == "scalar"
TemplateMaps == {"t1", "t2"}
NilTemplate == "nil"

\* The node-groups the cluster may hold when the templates are read.
TemplateObjects == {Absent,
                    Object([nodeType |-> "Cloud", nodeTemplate |-> "t1"]),
                    Object([nodeType |-> "Static", nodeTemplate |-> None]),
                    Object([nodeType |-> "Cloud", nodeTemplate |-> Scalar]),
                    Object(NoSpec)}

GroupItem(ngs, n) == [name |-> n, spec |-> ngs[n].spec]

\* Dynamic().Resource(nodegroups).List(): an error, or the existing
\* node-groups in the order the server returns them.
ListNodeGroups(ngs) ==
    {[err |-> Transient, items |-> <<>>]} \cup
    {[err |-> Nil, items |-> [i \in DOMAIN s |-> GroupItem(ngs, s[i])]] :
        s \in Orderings({n \in NgNames : ngs[n].exists})}

\* The two type assertions: group.Object["spec"] as a map, then
\* spec["nodeTemplate"] as a map; nil when either fails.
NodeTemplate(group) ==
    IF group.spec = NoSpec THEN NilTemplate
    ELSE IF group.spec.nodeTemplate \in TemplateMaps THEN group.spec.nodeTemplate
    ELSE NilTemplate

\* Faulty variant: a group without a template gets no key.
StoreIfTemplate(m, group) ==
    IF NodeTemplate(group) = NilTemplate THEN m
    ELSE [n \in DOMAIN m \cup {group.name} |->
            IF n = group.name THEN NodeTemplate(group) ELSE m[n]]

\* nodeTemplates[group.GetName()] = nodeTemplate
Store(m, group) ==
    [n \in DOMAIN m \cup {group.name} |->
        IF n = group.name THEN NodeTemplate(group) ELSE m[n]]

\* The loop over nodeGroups.Items.
RECURSIVE StoreAll(_, _)
StoreAll(m, items) ==
    IF items = <<>> THEN m ELSE StoreAll(Store(m, Head(items)), Tail(items))

GetNodeGroupTemplates(p) ==
    /\ pc[p] = "attempt"
    /\ op[p].kind = "GetNodeGroupTemplates"
    /\ invoked' = [invoked EXCEPT ![p] = @ + 1]
    /\ UNCHANGED cloudVars
    /\ UNCHANGED <<clusterVars, op, attempt, callNo, ngs0>>
    /\ \E r \in ListNodeGroups(nodegroups) :
          /\ calls' = [calls EXCEPT ![p] = Append(@, Call("list", "nodegroups", r.err))]
          /\ faulted' = (faulted \/ r.err = Transient)
          /\ local' = [local EXCEPT ![p] = r.items]
          /\ IF r.err # Nil
                THEN /\ UNCHANGED val
                     /\ AttemptReturns(p, r.err)
                ELSE /\ val' = [val EXCEPT ![p].map = StoreAll(@, r.items)]
                     /\ AttemptReturns(p, Nil)

(***************************************************************************)
(* GetCloudConfig: the wait for the bootstrap secret and, beside it, the   *)
(* goroutine that streams the deckhouse log until the context is           *)
(* cancelled.                                                              *)
(***************************************************************************)
GetCloudConfigOp(g) == [kind |-> "GetCloudConfig", nodeGroupName |-> g]

\* base64.StdEncoding.EncodeToString: every 3 bytes give 4 sextets, a last
\* group of 1 or 2 bytes is padded with '=' (written Pad).
Pad == 64

B64Group(b) ==
    LET n == Len(b)
        x == b[1] * 65536 + (IF n >= 2 THEN b[2] ELSE 0) * 256 + (IF n = 3 THEN b[3] ELSE 0)
    IN <<x \div 262144,
         (x \div 4096) % 64,
         IF n >= 2 THEN (x \div 64) % 64 ELSE Pad,
         IF n = 3 THEN x % 64 ELSE Pad>>

RECURSIVE EncodeToString(_)
EncodeToString(b) ==
    IF b = <<>> THEN <<>>
    ELSE IF Len(b) <= 3 THEN B64Group(b)
    ELSE B64Group(SubSeq(b, 1, 3)) \o EncodeToString(SubSeq(b, 4, Len(b)))

\* cloudData = base64(secret.Data["cloud-config"])
CloudData(secret) == [v |-> "string", s |-> EncodeToString(secret.data)]

\* Secrets("d8-cloud-instance-manager").Get("manual-bootstrap-for-" + g)
GetSecretResults(secs, g) ==
    IF secs[g].exists
      THEN {[err |-> Nil, secret |-> secs[g]], [err |-> Transient, secret |-> NoSecret]}
      ELSE {[err |-> NotFound, secret |-> NoSecret], [err |-> Transient, secret |-> NoSecret]}

\* Faulty variant: reading the bootstrap secret consumes it.
SecretsAfterGetConsumed(secs, g, r) ==
    IF r.err = Nil THEN [secs EXCEPT ![g] = NoSecret] ELSE secs

\* The secrets in the cluster after the Get answered r.
SecretsAfterGet(secs, g, r) == secs

\* ctx, cancel := context.WithCancel(...); defer cancel(); go func() {...}()
StartStreamer(p) ==
    /\ pc[p] = "start"
    /\ op[p].kind = "GetCloudConfig"
    /\ pc' = [pc EXCEPT ![p] = "attempt"]
    /\ spc' = [spc EXCEPT ![p] = "select"]
    /\ UNCHANGED <<clusterVars, op, attempt, lastErr, ret, val, local, calls, sleeps,
                   invoked, reported, callNo, hist, faulted, ngs0,
                   secrets, ctxDone, lateFetches>>

\* The attempt closure of the secret wait.
GetSecret(p) ==
    /\ pc[p] = "attempt"
    /\ op[p].kind = "GetCloudConfig"
    /\ invoked' = [invoked EXCEPT ![p] = @ + 1]
    /\ UNCHANGED <<clusterVars, op, attempt, callNo, ngs0, ctxDone, spc, lateFetches>>
    /\ LET g == op[p].nodeGroupName IN
       \E r \in GetSecretResults(secrets, g) :
          /\ secrets' = SecretsAfterGet(secrets, g, r)
          /\ calls' = [calls EXCEPT ![p] = Append(@, Call("get", g, r.err))]
          /\ faulted' = (faulted \/ r.err = Transient)
          /\ local' = [local EXCEPT ![p] = <<r>>]
          /\ val' = IF r.err = Nil THEN [val EXCEPT ![p] = CloudData(r.secret)] ELSE val
          /\ AttemptReturns(p, r.err)

\* Faulty variant: cancel() is called on the success path only.
CancelRunsOnSuccess(err) == err = Nil

\* defer cancel(): whether cancel() runs when the wait has ended with err.
CancelRuns(err) == TRUE

\* The executor has returned: the function returns cloudData and the error,
\* running the deferred cancel().
Cancel(p) ==
    /\ pc[p] = "done"
    /\ op[p].kind = "GetCloudConfig"
    /\ pc' = [pc EXCEPT ![p] = "returned"]
    /\ ctxDone' = [ctxDone EXCEPT ![p] = CancelRuns(ret[p])]
    /\ UNCHANGED <<clusterVars, op, attempt, lastErr, ret, val, local, calls, sleeps,
                   invoked, reported, callNo, hist, faulted, ngs0,
                   secrets, spc, lateFetches>>

\* Faulty variant: the goroutine never looks at ctx.Done().
SelectBranchIgnoresDone(done) == "default"

\* select { case <-ctx.Done(): return; default: ... }
SelectBranch(done) == IF done THEN "exited" ELSE "default"

\* The goroutine evaluates the select statement.
StreamerSelect(p) ==
    /\ spc[p] = "select"
    /\ spc' = [spc EXCEPT ![p] = SelectBranch(ctxDone[p])]
    /\ UNCHANGED <<clusterVars, op, pc, attempt, lastErr, ret, val, local, calls, sleeps,
                   invoked, reported, callNo, hist, faulted, ngs0,
                   secrets, ctxDone, lateFetches>>

\* The goroutine, in the default branch, calls the log printer with ctx.
StreamerFetch(p) ==
    /\ spc[p] = "default"
    /\ spc' = [spc EXCEPT ![p] = "fetching"]
    /\ lateFetches' = [lateFetches EXCEPT ![p] =
                          IF ctxDone[p] /\ @ < MaxLateFetches THEN @ + 1 ELSE @]
    /\ UNCHANGED <<clusterVars, op, pc, attempt, lastErr, ret, val, local, calls, sleeps,
                   invoked, reported, callNo, hist, faulted, ngs0,
                   secrets, ctxDone>>

\* What the log printer may return.
FetchResults == {Nil, Transient}

\* Faulty variant: a failed fetch is stored in the captured variable.
CapturedKeepsError(v, r) == IF r = Nil THEN v ELSE [v |-> "string", s |-> <<Pad>>]

\* _, _ = ...: the captured variable after the fetch returned r.
Captured(v, r) == v

\* The log printer returns; the loop goes round.
StreamerReturn(p) ==
    /\ spc[p] = "fetching"
    /\ spc' = [spc EXCEPT ![p] = "select"]
    /\ \E r \in FetchResults : val' = [val EXCEPT ![p] = Captured(@, r)]
    /\ UNCHANGED <<clusterVars, op, pc, attempt, lastErr, ret, local, calls, sleeps,
                   invoked, reported, callNo, hist, faulted, ngs0,
                   secrets, ctxDone, lateFetches>>

\* Another actor (the node-group controller) creates, rewrites or removes
\* the bootstrap secret while the wait is running.
SecretChange ==
    /\ \E p \in Procs : op[p].kind = "GetCloudConfig" /\ pc[p] \in {"start", "attempt", "sleep"}
    /\ \E o \in {NoSecret} \cup {Secret(d) : d \in SecretData} :
          /\ secrets["ng-1"] # o
          /\ secrets' = [secrets EXCEPT !["ng-1"] = o]
    /\ UNCHANGED <<clusterVars, op, pc, attempt, lastErr, ret, val, local, calls, sleeps,
                   invoked, reported, callNo, hist, faulted, ngs0,
                   ctxDone, spc, lateFetches>>

\* Another actor creates, changes or deletes a node-group while the
\* templates are being read.
NodeGroupChange ==
    /\ \E p \in Procs : pc[p] \in {"attempt", "sleep"}
    /\ \E n \in NgNames : \E o \in TemplateObjects :
          /\ nodegroups[n] # o
          /\ nodegroups' = [nodegroups EXCEPT ![n] = o]
    /\ UNCHANGED cloudVars
    /\ UNCHANGED <<nodes, op, pc, attempt, lastErr, ret, val, local, calls, sleeps,
                   invoked, reported, callNo, hist, faulted, ngs0>>

\* Another actor (the kubelet, the cloud provider) changes a node of the
\* watched group while a wait is running.
NodeChange ==
    /\ \E p \in Procs : pc[p] \in {"attempt", "sleep"}
    /\ \E n \in {"n1", "n2"} : \E st \in {NoNode} \cup {Node(c) : c \in CondLists} :
          /\ nodes[n] # st
          /\ nodes' = [nodes EXCEPT ![n] = st]
    /\ UNCHANGED cloudVars
    /\ UNCHANGED <<nodegroups, op, pc, attempt, lastErr, ret, val, local, calls, sleeps,
                   invoked, reported, callNo, hist, faulted, ngs0>>

(***************************************************************************)
(* Specifications.                                                         *)
(***************************************************************************)
InitProc ==
    /\ attempt = [p \in Procs |-> 1]
    /\ lastErr = [p \in Procs |-> Nil]
    /\ ret = [p \in Procs |-> Nil]
    /\ val = [p \in Procs |-> ZeroVal(op[p])]
    /\ local = [p \in Procs |-> <<>>]
    /\ calls = [p \in Procs |-> <<>>]
    /\ sleeps = [p \in Procs |-> 0]
    /\ invoked = [p \in Procs |-> 0]
    /\ reported = [p \in Procs |-> 0]
    /\ callNo = [p \in Procs |-> 1]
    /\ hist = [p \in Procs |-> <<>>]
    /\ faulted = FALSE
    /\ ngs0 = nodegroups
    /\ ctxDone = [p \in Procs |-> FALSE]
    /\ spc = [p \in Procs |-> "none"]
    /\ lateFetches = [p \in Procs |-> 0]

\* One caller upserting a declaration, up to MaxCalls times in a row.
InitUpsert ==
    /\ nodegroups \in [NgNames -> InitObjects]
    /\ nodes = [n \in NodeNames |-> NoNode]
    /\ \E n \in NgNames, d \in Docs :
          op = [p \in Procs |-> IF p = 1 THEN CreateNodeGroupOp(n, d) ELSE NoOp]
    /\ pc = [p \in Procs |-> IF p = 1 THEN "attempt" ELSE "idle"]
    /\ secrets = [n \in NgNames |-> NoSecret]
    /\ InitProc

NextUpsert == \E p \in Procs : Create(p) \/ Patch(p) \/ Sleep(p) \/ Again(p)

SpecUpsert == InitUpsert /\ [][NextUpsert]_vars

\* The executor alone, under every policy up to MaxPolicy attempts.
InitRetry ==
    /\ nodegroups = [n \in NgNames |-> Absent]
    /\ nodes = [n \in NodeNames |-> NoNode]
    /\ \E m \in 1..MaxPolicy, s \in BOOLEAN :
          op = [p \in Procs |-> IF p = 1 THEN RunOp(m, s) ELSE NoOp]
    /\ pc = [p \in Procs |-> IF p = 1 THEN "attempt" ELSE "idle"]
    /\ secrets = [n \in NgNames |-> NoSecret]
    /\ InitProc

NextRetry == \E p \in Procs : RunAttempt(p) \/ Sleep(p) \/ Again(p)

SpecRetry == InitRetry /\ [][NextRetry]_vars

\* One caller deleting a node or a node-group, up to MaxCalls times in a row.
InitDelete ==
    /\ nodegroups \in [NgNames -> {Absent, Object([nodeType |-> "Cloud", nodeTemplate |-> "t1"])}]
    /\ nodes \in [NodeNames -> {NoNode, Node(ReadyConds)}]
    /\ \E o \in {DeleteNodeOp(n) : n \in NodeNames} \cup {DeleteNodeGroupOp(n) : n \in NgNames} :
          op = [p \in Procs |-> IF p = 1 THEN o ELSE NoOp]
    /\ pc = [p \in Procs |-> IF p = 1 THEN "attempt" ELSE "idle"]
    /\ secrets = [n \in NgNames |-> NoSecret]
    /\ InitProc

NextDelete == \E p \in Procs : DeleteNode(p) \/ DeleteNodeGroup(p) \/ Sleep(p) \/ Again(p)

SpecDelete == InitDelete /\ [][NextDelete]_vars

\* One caller waiting for the nodes of a group or for a list of nodes, while
\* the nodes change.
NodeLists == {<<>>, <<"n1">>, <<"n1", "n2">>, <<"n2", "n1">>, <<"n1", "n1">>}

InitWait ==
    /\ nodegroups = [n \in NgNames |-> Absent]
    /\ \E s1, s2 \in {NoNode} \cup {Node(c) : c \in CondLists} :
          nodes = [n \in NodeNames |-> IF n = "n1" THEN s1
                                       ELSE IF n = "n2" THEN s2 ELSE Node(ReadyConds)]
    /\ \E o \in {WaitNodesOp(g, d) : g \in NgNames, d \in 0..MaxDesired}
                \cup {WaitNodesListOp(l) : l \in NodeLists}
                \cup {WaitSingleNodeOp(n) : n \in {"n1", "n3"}} :
          op = [p \in Procs |-> IF p = 1 THEN o ELSE NoOp]
    /\ pc = [p \in Procs |-> IF p = 1 THEN "attempt" ELSE "idle"]
    /\ secrets = [n \in NgNames |-> NoSecret]
    /\ InitProc

NextWait ==
    \/ NodeChange
    \/ \E p \in Procs : WaitNodes(p) \/ WaitNodesList(p) \/ WaitSingleNode(p) \/ Sleep(p)

SpecWait == InitWait /\ [][NextWait]_vars

\* One caller reading the node templates while the node-groups change.
InitTemplates ==
    /\ nodegroups \in [NgNames -> TemplateObjects]
    /\ nodes = [n \in NodeNames |-> NoNode]
    /\ op = [p \in Procs |-> IF p = 1 THEN GetNodeGroupTemplatesOp ELSE NoOp]
    /\ pc = [p \in Procs |-> IF p = 1 THEN "attempt" ELSE "idle"]
    /\ secrets = [n \in NgNames |-> NoSecret]
    /\ InitProc

NextTemplates ==
    \/ NodeGroupChange
    \/ \E p \in Procs : GetNodeGroupTemplates(p) \/ Sleep(p)

SpecTemplates == InitTemplates /\ [][NextTemplates]_vars

\* One caller waiting for the cloud config of ng-1 while the secret changes.
\* The goroutines are scheduled fairly and every call returns.
InitCloud ==
    /\ nodegroups = [n \in NgNames |-> Absent]
    /\ nodes = [n \in NodeNames |-> NoNode]
    /\ op = [p \in Procs |-> IF p = 1 THEN GetCloudConfigOp("ng-1") ELSE NoOp]
    /\ pc = [p \in Procs |-> IF p = 1 THEN "start" ELSE "idle"]
    /\ \E o \in {NoSecret} \cup {Secret(d) : d \in SecretData} :
          secrets = [n \in NgNames |-> IF n = "ng-1" THEN o ELSE NoSecret]
    /\ InitProc

MainStep(p) == StartStreamer(p) \/ GetSecret(p) \/ Sleep(p) \/ Cancel(p)

StreamerStep(p) == StreamerSelect(p) \/ StreamerFetch(p) \/ StreamerReturn(p)

NextCloud == SecretChange \/ \E p \in Procs : MainStep(p) \/ StreamerStep(p)

SpecCloud ==
    /\ InitCloud
    /\ [][NextCloud]_vars
    /\ WF_vars(MainStep(1))
    /\ WF_vars(StreamerStep(1))

\* Two runs of GetCloudConfig side by side, each with a goroutine of its own
\* scheduled freely.  Run 2 is given, attempt by attempt, the answers to the
\* secret fetch that run 1 received: run 1 makes its k-th attempt first, run 2
\* replays it, and the secret changes only between such rounds.
Finished(p) == pc[p] \in {"sleep", "done", "returned"}

Turn(p) ==
    IF p = 1
      THEN pc[2] \in {"start", "attempt"} /\ attempt[2] = attempt[1]
      ELSE Finished(1) /\ attempt[1] = attempt[2]

Replays(p) == p = 2 => local'[2] = local[1]

SleepTurn(p) == p = 1 => (attempt[2] = attempt[1] + 1 \/ (Finished(2) /\ attempt[2] = attempt[1]))

InitPair ==
    /\ nodegroups = [n \in NgNames |-> Absent]
    /\ nodes = [n \in NodeNames |-> NoNode]
    /\ op = [p \in Procs |-> GetCloudConfigOp("ng-1")]
    /\ pc = [p \in Procs |-> "start"]
    /\ \E o \in {NoSecret} \cup {Secret(d) : d \in SecretData} :
          secrets = [n \in NgNames |-> IF n = "ng-1" THEN o ELSE NoSecret]
    /\ InitProc

NextPair ==
    \/ ~(Finished(1) /\ ~Finished(2)) /\ SecretChange
    \/ \E p \in Procs :
          \/ StartStreamer(p)
          \/ Turn(p) /\ GetSecret(p) /\ Replays(p)
          \/ SleepTurn(p) /\ Sleep(p)
          \/ Cancel(p)
          \/ StreamerStep(p)

SpecPair == InitPair /\ [][NextPair]_vars

\* Every exposed function, called once on a cluster that does not change
\* meanwhile.  The caller's flow is scheduled fairly and every API call
\* returns.
AllOps ==
    {CreateNodeGroupOp("ng-1", [name |-> "ng-1",
                                spec |-> [nodeType |-> "Cloud", nodeTemplate |-> "t2"]]),
     DeleteNodeOp("n1"), DeleteNodeGroupOp("ng-1"),
     WaitSingleNodeOp("n1"), GetNodeGroupTemplatesOp, GetCloudConfigOp("ng-1")}
    \cup {WaitNodesOp("ng-1", d) : d \in 0..MaxDesired}
    \cup {WaitNodesListOp(l) : l \in NodeLists}

InitAll ==
    /\ \E o \in {Absent, Object([nodeType |-> "Cloud", nodeTemplate |-> "t1"])} :
          nodegroups = [n \in NgNames |-> IF n = "ng-1" THEN o ELSE Absent]
    /\ \E s1 \in {NoNode, Node(ReadyConds), Node(NotReadyConds)} :
          nodes = [n \in NodeNames |-> IF n = "n1" THEN s1
                                       ELSE IF n = "n2" THEN Node(ReadyConds) ELSE NoNode]
    /\ \E o \in {NoSecret, Secret(<<77, 97>>)} :
          secrets = [n \in NgNames |-> IF n = "ng-1" THEN o ELSE NoSecret]
    /\ \E o \in AllOps :
          /\ op = [p \in Procs |-> IF p = 1 THEN o ELSE NoOp]
          /\ pc = [p \in Procs |-> IF p # 1 THEN "idle"
                                    ELSE IF o.kind = "GetCloudConfig" THEN "start"
                                    ELSE "attempt"]
    /\ InitProc

\* A step of the caller's own flow: the executor's loop and the closures.
OpStep(p) ==
    \/ Create(p) \/ Patch(p)
    \/ DeleteNode(p) \/ DeleteNodeGroup(p)
    \/ WaitSingleNode(p) \/ WaitNodes(p) \/ WaitNodesList(p)
    \/ GetNodeGroupTemplates(p)
    \/ MainStep(p)

NextAll == \E p \in Procs : OpStep(p) \/ StreamerStep(p)

SpecAll ==
    /\ InitAll
    /\ [][NextAll]_vars
    /\ WF_vars(OpStep(1))
    /\ WF_vars(StreamerStep(1))

\* Two callers upserting concurrently, one call each.
RaceSpecs == {[nodeType |-> "Cloud", nodeTemplate |-> "t1"],
              [nodeType |-> "Static", nodeTemplate |-> None]}

InitRace ==
    /\ \E o \in {Absent, Object([nodeType |-> "Cloud", nodeTemplate |-> "t2"])} :
          nodegroups = [n \in NgNames |-> IF n = "ng-1" THEN o ELSE Absent]
    /\ nodes = [n \in NodeNames |-> NoNode]
    /\ \E n \in NgNames, s1, s2 \in RaceSpecs :
          op = [p \in Procs |-> IF p = 1
                                  THEN CreateNodeGroupOp("ng-1", [name |-> "ng-1", spec |-> s1])
                                  ELSE CreateNodeGroupOp(n, [name |-> n, spec |-> s2])]
    /\ pc = [p \in Procs |-> "attempt"]
    /\ secrets = [n \in NgNames |-> NoSecret]
    /\ InitProc

NextRace == \E p \in Procs : Create(p) \/ Patch(p) \/ Sleep(p)

SpecRace == InitRace /\ [][NextRace]_vars

(***************************************************************************)
(* Properties of CreateNodeGroup.                                          *)
(***************************************************************************)
IsCreate(p) == op[p].kind = "CreateNodeGroup"

\* The latest attempt of p has returned to the executor.
AttemptEnded(p) == pc[p] \in {"sleep", "done"} /\ calls[p] # <<>>

CreateFailedOther(p) ==
    /\ IsCreate(p)
    /\ AttemptEnded(p)
    /\ calls[p][1].verb = "create"
    /\ calls[p][1].res \notin {Nil, AlreadyExists}

\* C1: an attempt whose create call fails with an error other than
\* AlreadyExists returns that error to the executor: the call does not report
\* success on that attempt, and ends with the error only when the 45 attempts
\* are used up.
C1_CreateErrorFailsAttempt ==
    \A p \in Procs :
        CreateFailedOther(p) =>
            /\ lastErr[p] = calls[p][1].res
            /\ pc[p] = "done" => (ret[p] = calls[p][1].res /\ attempt[p] = CreateNodeGroupAttempts)

CreateConflicted(p) ==
    /\ IsCreate(p)
    /\ AttemptEnded(p)
    /\ calls[p][1] = Call("create", op[p].doc.name, AlreadyExists)

\* C2: an attempt whose create call returns AlreadyExists issues exactly one
\* merge-patch, addressed to the declaration's own name; when the patch
\* succeeds the attempt succeeds and CreateNodeGroup returns success at once,
\* when it fails the attempt fails with the patch error.
C2_ConflictPatchesByName ==
    \A p \in Procs :
        /\ (IsCreate(p) /\ pc[p] = "patch") => calls[p] = <<Call("create", op[p].doc.name, AlreadyExists)>>
        /\ CreateConflicted(p) =>
              /\ Len(calls[p]) = 2
              /\ calls[p][2].verb = "patch"
              /\ calls[p][2].name = op[p].doc.name
              /\ IF calls[p][2].res = Nil
                    THEN pc[p] = "done" /\ ret[p] = Nil
                    ELSE /\ lastErr[p] = calls[p][2].res
                         /\ pc[p] = "done" => (ret[p] = calls[p][2].res
                                                 /\ attempt[p] = CreateNodeGroupAttempts)

\* A patch failed on the first attempt and succeeded on the second.
C2_Witness ==
    \E p \in Procs :
        /\ CreateConflicted(p)
        /\ attempt[p] = 2
        /\ calls[p][2] = Call("patch", op[p].doc.name, Nil)
        /\ pc[p] = "done"

RaceName == op[1].doc.name
Created(p) == calls[p] = <<Call("create", RaceName, Nil)>>
Patched(p) == calls[p] = <<Call("create", RaceName, AlreadyExists), Call("patch", RaceName, Nil)>>

\* Two concurrent upserts of one name, answered by the API without transient
\* errors, have both returned.
SameNameOver ==
    /\ IsCreate(1) /\ IsCreate(2)
    /\ op[2].doc.name = RaceName
    /\ ~faulted
    /\ pc[1] = "done" /\ pc[2] = "done"

\* ... and the name did not exist when they started: the race to create it.
RaceOver == SameNameOver /\ ~ngs0[RaceName].exists

C4_UpsertIdempotent ==
    \A p \in Procs :
        (/\ IsCreate(p)
         /\ Len(hist[p]) >= 2
         /\ hist[p][1].ret = Nil
         /\ hist[p][2].ret = Nil)
        => hist[p][2].ngs[op[p].doc.name] = hist[p][1].ngs[op[p].doc.name]

\* The API calls p's current attempt has issued so far are, in order, one
\* create and, only after a create answered AlreadyExists, one patch.
CreateThenPatch(p) ==
    /\ Len(calls[p]) <= 2
    /\ calls[p] # <<>> => calls[p][1].verb = "create"
    /\ Len(calls[p]) = 2 => (calls[p][1].res = AlreadyExists /\ calls[p][2].verb = "patch")
    /\ pc[p] = "patch" => calls[p] = <<Call("create", op[p].doc.name, AlreadyExists)>>
    /\ pc[p] \in {"sleep", "done"} => calls[p] # <<>>

\* C19: inside CreateNodeGroup every attempt begins with a create call; a
\* patch is issued only in an attempt whose create returned AlreadyExists, and
\* after that create; an attempt issues at most one create and one patch; and
\* after a failed patch the next attempt starts again with create.
C19_CreateBeforePatch ==
    /\ [](\A p \in Procs : IsCreate(p) => CreateThenPatch(p))
    /\ [][\A p \in Procs :
            IsCreate(p) =>
               \* an attempt starts with no call issued, and its first step is the create
               /\ (pc[p] \in {"sleep", "done"} /\ pc'[p] # pc[p]) =>
                     (pc'[p] = "attempt" /\ calls'[p] = <<>>)
               /\ (pc[p] = "attempt" /\ pc'[p] # pc[p]) =>
                     (Len(calls'[p]) = 1 /\ calls'[p][1].verb = "create")
               \* the patch is the step that follows the conflict
               /\ (Len(calls'[p]) = 2 /\ calls'[p] # calls[p]) =>
                     (pc[p] = "patch" /\ calls'[p][2].verb = "patch"
                        /\ calls'[p][1] = calls[p][1])]_vars

\* The patch of the first attempt failed and the second attempt has issued
\* its create, answered AlreadyExists again.
C19_Witness ==
    \E p \in Procs :
        /\ IsCreate(p)
        /\ attempt[p] = 2
        /\ lastErr[p] = Transient
        /\ pc[p] = "patch"
        /\ calls[p] = <<Call("create", op[p].doc.name, AlreadyExists)>>

(***************************************************************************)
(* Properties of the retry executor.                                       *)
(***************************************************************************)
IsRun(p) == op[p].kind = "Run"

\* C5: when the attempt fails on tries 1..k-1 and succeeds on try k <= m, run
\* returns success after exactly k invocations and k-1 sleeps, with the value
\* of invocation k.
C5_SuccessOnTryK ==
    \A p \in Procs :
        /\ (IsRun(p) /\ pc[p] = "done" /\ ret[p] = Nil) =>
              \E k \in 1..op[p].maxAttempts :
                 /\ invoked[p] = k
                 /\ attempt[p] = k
                 /\ sleeps[p] = k - 1
                 /\ val[p] = AttemptValue(k)
        \* while the run is going on every invocation so far has failed
        /\ (IsRun(p) /\ pc[p] = "sleep") =>
              /\ lastErr[p] = AttemptError(invoked[p])
              /\ sleeps[p] = invoked[p]
              /\ invoked[p] < op[p].maxAttempts

\* The third try of a policy of at least four attempts succeeded.
C5_Witness ==
    \E p \in Procs :
        /\ IsRun(p) /\ pc[p] = "done" /\ ret[p] = Nil
        /\ invoked[p] = 3 /\ sleeps[p] = 2
        /\ op[p].maxAttempts > 3

\* C6: an attempt that fails every time is invoked exactly m times and run
\* returns the error of invocation m, silent or not.
C6_AlwaysFailing ==
    \A p \in Procs :
        (IsRun(p) /\ pc[p] = "done" /\ ret[p] # Nil) =>
            /\ invoked[p] = op[p].maxAttempts
            /\ ret[p] = AttemptError(op[p].maxAttempts)
            /\ reported[p] = IF op[p].silent THEN 0 ELSE op[p].maxAttempts

\* A silent run of three attempts failed three times.
C6_Witness ==
    \E p \in Procs :
        /\ IsRun(p) /\ pc[p] = "done" /\ ret[p] = AttemptError(3)
        /\ op[p].silent /\ op[p].maxAttempts = 3

(***************************************************************************)
(* Properties of DeleteNode and DeleteNodeGroup.                           *)
(***************************************************************************)
IsDelete(p) == op[p].kind \in {"DeleteNode", "DeleteNodeGroup"}

TargetExists(p) ==
    IF op[p].kind = "DeleteNode" THEN nodes[op[p].name].exists
    ELSE nodegroups[op[p].name].exists

\* The delete call of p's latest attempt was answered r.
DeleteAnswered(p, r) ==
    /\ IsDelete(p)
    /\ AttemptEnded(p)
    /\ calls[p] = <<Call("delete", op[p].name, r)>>

\* p's delete call is answered NotFound in this step.
AnsweredNotFoundNow(p) ==
    /\ IsDelete(p)
    /\ pc[p] = "attempt"
    /\ calls'[p] = <<Call("delete", op[p].name, NotFound)>>

\* C7: a delete of a name that is absent (the API answers NotFound) returns
\* success on that attempt, issues no further delete call and leaves the
\* cluster unchanged; so after a successful delete the name is absent and a
\* second delete, answered NotFound, succeeds as well.
C7_DeleteIdempotent ==
    /\ [](\A p \in Procs :
            /\ DeleteAnswered(p, NotFound) => (pc[p] = "done" /\ ret[p] = Nil)
            /\ (IsDelete(p) /\ callNo[p] = 2 /\ hist[p][1].ret = Nil) =>
                  /\ ~TargetExists(p)
                  /\ AttemptEnded(p) =>
                        /\ calls[p][1].res \in {NotFound, Transient}
                        /\ calls[p][1].res = NotFound => (pc[p] = "done" /\ ret[p] = Nil))
    /\ [][\A p \in Procs :
            AnsweredNotFoundNow(p) =>
                (pc'[p] = "done" /\ ret'[p] = Nil /\ UNCHANGED clusterVars)]_vars

\* The second of two deletes in a row was answered NotFound and succeeded.
C7_Witness ==
    \E p \in Procs :
        /\ DeleteAnswered(p, NotFound)
        /\ callNo[p] = 2
        /\ hist[p][1].ret = Nil
        /\ op[p].kind = "DeleteNodeGroup"
        /\ ngs0[op[p].name].exists

\* C8: a delete error other than NotFound fails the attempt and is retried;
\* the call reports an error only after 45 failed delete attempts, and an
\* attempt whose delete returns no error ends the call with success.
C8_DeleteErrorsRetried ==
    \A p \in Procs :
        /\ DeleteAnswered(p, Nil) => (pc[p] = "done" /\ ret[p] = Nil)
        /\ DeleteAnswered(p, Transient) =>
              /\ lastErr[p] = Transient
              /\ IF invoked[p] < DeleteNodeAttempts
                    THEN pc[p] = "sleep"
                    ELSE pc[p] = "done" /\ ret[p] = Transient
        /\ (IsDelete(p) /\ pc[p] = "done" /\ ret[p] # Nil) =>
              /\ invoked[p] = IF op[p].kind = "DeleteNode" THEN DeleteNodeAttempts
                                                         ELSE DeleteNodeGroupAttempts
              /\ sleeps[p] = invoked[p] - 1

\* A node delete failed 45 times and the call returned the error.
C8_Witness ==
    \E p \in Procs :
        /\ DeleteAnswered(p, Transient)
        /\ op[p].kind = "DeleteNode"
        /\ pc[p] = "done" /\ ret[p] = Transient
        /\ invoked[p] = DeleteNodeAttempts

(***************************************************************************)
(* Properties of the readiness waits.                                      *)
(***************************************************************************)
IsGroupWait(p) == op[p].kind = "WaitForNodesBecomeReady"
IsListWait(p) == op[p].kind = "WaitForNodesListBecomeReady"
IsWait(p) == IsGroupWait(p) \/ IsListWait(p)

Desired(p) == IF IsGroupWait(p) THEN op[p].desiredReadyNodes ELSE Len(op[p].nodes)

\* The node carries a Ready condition with status True.
HasReadyTrue(node) == \E i \in DOMAIN node.conditions : node.conditions[i] = Cond("Ready", "True")

\* Number of observed nodes that are ready.
ReadyListed(items) == Cardinality({i \in DOMAIN items : HasReadyTrue(items[i])})

\* p's latest attempt has returned and its list call succeeded.
ListSucceeded(p) ==
    /\ IsGroupWait(p)
    /\ pc[p] \in {"sleep", "done"}
    /\ calls[p] = <<Call("list", op[p].nodeGroupName, Nil)>>

\* C9: an attempt of WaitForNodesBecomeReady whose list call succeeds is
\* successful iff readyCount >= d, readyCount being the number of listed nodes
\* with a Ready condition of status True; with d = 0 it always succeeds.
C9_GroupAttemptSucceedsIffQuorum ==
    \A p \in Procs :
        ListSucceeded(p) =>
            /\ (lastErr[p] = Nil) <=> (ReadyListed(local[p]) >= op[p].desiredReadyNodes)
            /\ lastErr[p] = Nil => (pc[p] = "done" /\ ret[p] = Nil)
            /\ lastErr[p] # Nil => (pc[p] = "done" => ret[p] = lastErr[p])
            /\ op[p].desiredReadyNodes = 0 => (pc[p] = "done" /\ ret[p] = Nil)

\* The second attempt listed two nodes, both ready, for d = 2, one of them
\* with its Ready condition after another condition.
C9_Witness ==
    \E p \in Procs :
        /\ ListSucceeded(p)
        /\ invoked[p] = 2
        /\ op[p].desiredReadyNodes = 2
        /\ Len(local[p]) = 2
        /\ ReadyListed(local[p]) = 2
        /\ pc[p] = "done"

\* Number of distinct node names observed ready (the readiness snapshot is a
\* set of records).
ReadyObserved(items) ==
    Cardinality({n \in NodeNames : \E i \in DOMAIN items :
                                     items[i].name = n /\ HasReadyTrue(items[i])})

\* p's latest attempt has returned and every fetch of it succeeded.
Observed(p) ==
    /\ IsWait(p)
    /\ pc[p] \in {"sleep", "done"}
    /\ \A i \in DOMAIN calls[p] : calls[p][i].res = Nil
    /\ IsGroupWait(p) => Len(calls[p]) = 1
    /\ IsListWait(p) => (Len(calls[p]) = Len(op[p].nodes) /\ Len(local[p]) = Len(op[p].nodes))

\* The readiness summary as an error, rendered from the observed nodes.
SummaryOf(p) == [kind |-> "NodesNotReady", message |-> Message(local[p], Desired(p))]

\* The wait returns success on the first attempt in which satisfied holds.
SucceedsWhenSatisfied(p) ==
    /\ (Observed(p) /\ ReadyObserved(local[p]) >= Desired(p)) => (pc[p] = "done" /\ ret[p] = Nil)
    /\ (IsWait(p) /\ pc[p] = "done" /\ ret[p] = Nil) =>
          (Observed(p) /\ ReadyObserved(local[p]) >= Desired(p))

\* C10 as stated: the wait returns success on the first attempt in which
\* satisfied holds, and an error it returns is always the readiness summary
\* rendered from the nodes observed in the last attempt of the budget.
C10_ErrorIsLastSummary ==
    \A p \in Procs :
        /\ SucceedsWhenSatisfied(p)
        /\ (IsWait(p) /\ pc[p] = "done" /\ ret[p] # Nil) =>
              /\ invoked[p] = WaitNodesAttempts
              /\ ret[p] = SummaryOf(p)

\* C10 amended: the wait returns success on the first attempt in which
\* satisfied holds; an error it returns is the error of the last (100th)
\* attempt: the readiness summary rendered from the nodes observed in that
\* attempt when its fetches succeeded, the error of the failed list or get
\* call otherwise.
C10_ErrorIsLastAttemptError ==
    \A p \in Procs :
        /\ SucceedsWhenSatisfied(p)
        /\ (IsWait(p) /\ pc[p] = "done" /\ ret[p] # Nil) =>
              /\ invoked[p] = IF IsGroupWait(p) THEN WaitNodesAttempts ELSE WaitNodesListAttempts
              /\ IF Observed(p)
                    THEN /\ ret[p] = SummaryOf(p)
                         /\ ReadyObserved(local[p]) < Desired(p)
                    ELSE /\ ret[p] = calls[p][Len(calls[p])].res
                         /\ ret[p] \in {NotFound, Transient}

\* The wait for the list n1, n2 used up its budget with n2 observed not ready
\* in the last attempt.
C10_Witness ==
    \E p \in Procs :
        /\ IsListWait(p)
        /\ op[p].nodes = <<"n1", "n2">>
        /\ pc[p] = "done"
        /\ invoked[p] = WaitNodesListAttempts
        /\ Observed(p)
        /\ ret[p].message.ready = 1
        /\ ret[p].message.lines[2] = [name |-> "n2", condition |-> "NotReady"]

\* The summary the closure renders from the nodes p's latest attempt observed.
Rendered(p) == Message(local[p], Desired(p))

\* The names on the per-node lines of a summary, in order.
LineNames(m) == [i \in DOMAIN m.lines |-> m.lines[i].name]

\* C15: the readiness summary is the leading line "Nodes Ready <readyCount> of
\* <desiredCount>" followed by exactly one line per observed node, labelled
\* Ready or NotReady according to that node's Ready condition, the lines in
\* the order the nodes were observed (list order, or the order of the
\* caller's names), not sorted.
C15_SummaryListsObserved ==
    \A p \in Procs :
        Observed(p) =>
            /\ Rendered(p).ready = ReadyObserved(local[p])
            /\ Rendered(p).desired = Desired(p)
            /\ Len(Rendered(p).lines) = Len(local[p])
            /\ \A i \in DOMAIN local[p] :
                  /\ Rendered(p).lines[i].name = local[p][i].name
                  /\ Rendered(p).lines[i].condition =
                        IF HasReadyTrue(local[p][i]) THEN "Ready" ELSE "NotReady"
            /\ IsListWait(p) => LineNames(Rendered(p)) = op[p].nodes
            /\ lastErr[p] # Nil => lastErr[p] = SummaryOf(p)

\* C18: for every list of node names, lists naming a node more than once
\* included, an attempt of WaitForNodesListBecomeReady that fetches every named
\* node successfully and finds every fetched node Ready is successful, and the
\* wait returns success on that attempt.
C18_AllReadyListSucceeds ==
    \A p \in Procs :
        (/\ IsListWait(p)
         /\ Observed(p)
         /\ \A i \in DOMAIN local[p] : HasReadyTrue(local[p][i]))
        => (lastErr[p] = Nil /\ pc[p] = "done" /\ ret[p] = Nil)

(***************************************************************************)
(* Properties of WaitForSingleNodeBecomeReady.                             *)
(***************************************************************************)
IsSingleWait(p) == op[p].kind = "WaitForSingleNodeBecomeReady"

\* p's latest attempt has returned, its get call answered e.
SingleAnswered(p, e) ==
    /\ IsSingleWait(p)
    /\ pc[p] \in {"sleep", "done"}
    /\ calls[p] = <<Call("get", op[p].nodeName, e)>>

\* C11: an attempt of WaitForSingleNodeBecomeReady succeeds iff the fetch of
\* the node succeeds and the node carries a Ready condition of status True; a
\* failed fetch, NotFound included, never ends the wait early: it fails that
\* attempt only, and the wait is retried until the 100 attempts are used.
C11_SingleAttemptSucceedsIffReady ==
    \A p \in Procs :
        /\ (IsSingleWait(p) /\ pc[p] \in {"sleep", "done"}) =>
              /\ Len(calls[p]) = 1
              /\ (lastErr[p] = Nil) <=>
                    (/\ SingleAnswered(p, Nil)
                     /\ Len(local[p]) = 1
                     /\ HasReadyTrue(local[p][1]))
              /\ (pc[p] = "done") <=> (lastErr[p] = Nil \/ invoked[p] = WaitSingleNodeAttempts)
              /\ pc[p] = "done" => ret[p] = lastErr[p]
              /\ invoked[p] = attempt[p]
        /\ \A e \in {NotFound, Transient} :
              SingleAnswered(p, e) =>
                 /\ lastErr[p] = e
                 /\ IF invoked[p] < WaitSingleNodeAttempts
                       THEN pc[p] = "sleep"
                       ELSE pc[p] = "done" /\ ret[p] = e

\* The node was still not found on the 100th attempt, which ended the wait
\* with that error.
C11_Witness ==
    \E p \in Procs :
        /\ SingleAnswered(p, NotFound)
        /\ pc[p] = "done" /\ ret[p] = NotFound
        /\ invoked[p] = WaitSingleNodeAttempts
        /\ sleeps[p] = WaitSingleNodeAttempts - 1

(***************************************************************************)
(* Properties of GetNodeGroupTemplates.                                    *)
(***************************************************************************)
IsTemplates(p) == op[p].kind = "GetNodeGroupTemplates"

\* The names of the node-groups a list call returned.
Listed(items) == {items[i].name : i \in DOMAIN items}

\* The template a listed group carries: its spec.nodeTemplate when the group
\* has a spec and the nodeTemplate in it is a map, nil otherwise.
TemplateOf(item) ==
    IF item.spec \in {NoSpec} \/ item.spec.nodeTemplate \in {None, Scalar}
      THEN "nil" ELSE item.spec.nodeTemplate

\* C16: GetNodeGroupTemplates never returns a partial result: on success the
\* map has exactly one key for every node-group the list call of the
\* successful attempt returned (a nil template for a group without spec or
\* without a nodeTemplate map) and no other key; on error (10 failed list
\* attempts) the map holds no entry from any attempt.
C16_TemplatesAllOrNothing ==
    \A p \in Procs :
        IsTemplates(p) =>
            /\ (pc[p] = "done" /\ ret[p] = Nil) =>
                  /\ calls[p] = <<Call("list", "nodegroups", Nil)>>
                  /\ DOMAIN val[p].map = Listed(local[p])
                  /\ DOMAIN val[p].map = {n \in NgNames : nodegroups[n].exists}
                  /\ \A i \in DOMAIN local[p] :
                        val[p].map[local[p][i].name] = TemplateOf(local[p][i])
            /\ (pc[p] = "done" /\ ret[p] # Nil) =>
                  /\ invoked[p] = GetNodeGroupTemplatesAttempts
                  /\ DOMAIN val[p].map = {}
            /\ pc[p] # "done" => DOMAIN val[p].map = {}

\* The list failed once; the second attempt listed a group with a template
\* and a group without a spec.
C16_Witness ==
    \E p \in Procs :
        /\ IsTemplates(p)
        /\ pc[p] = "done" /\ ret[p] = Nil
        /\ invoked[p] = 2
        /\ \E a, b \in NgNames :
              /\ a # b
              /\ DOMAIN val[p].map = {a, b}
              /\ val[p].map[a] = "t1"
              /\ val[p].map[b] = "nil"
              /\ nodegroups[b] = Object(NoSpec)

(***************************************************************************)
(* Properties of GetCloudConfig and its log-streaming goroutine.           *)
(***************************************************************************)
IsCloud(p) == op[p].kind = "GetCloudConfig"

\* The goroutine of p begins a fetch (a call of the log printer) in this step.
FetchBegins(p) == spc[p] # "fetching" /\ spc'[p] = "fetching"

\* C12 as stated: once the cancellation signal has been emitted the goroutine
\* begins no new fetch, under any interleaving.
C12_NoFetchAfterCancel ==
    [][\A p \in Procs : (IsCloud(p) /\ ctxDone[p]) => ~FetchBegins(p)]_vars

\* C12 amended: once the cancellation signal has been emitted the goroutine
\* begins at most one more fetch, the one whose select statement was
\* evaluated before the signal; the next evaluation of the select statement
\* ends the goroutine, so no fetch follows that one.
C12_AtMostOneFetchAfterCancel ==
    /\ [](\A p \in Procs :
            IsCloud(p) =>
               /\ lateFetches[p] <= 1
               /\ lateFetches[p] = 1 => ctxDone[p]
               /\ spc[p] = "exited" => ctxDone[p])
    /\ [][\A p \in Procs :
            (IsCloud(p) /\ ctxDone[p]) =>
               /\ FetchBegins(p) => (spc[p] = "default" /\ lateFetches[p] = 0)
               /\ (spc[p] = "select" /\ spc'[p] # spc[p]) => spc'[p] = "exited"
               /\ spc[p] = "exited" => spc'[p] = "exited"]_vars

\* The wait has returned, and the goroutine has ended after a fetch it began
\* after the cancellation.
C12_Witness ==
    \E p \in Procs :
        /\ IsCloud(p)
        /\ pc[p] = "returned"
        /\ ctxDone[p]
        /\ lateFetches[p] = 1
        /\ spc[p] = "exited"

\* C14: the goroutine is started before the first attempt to fetch the
\* secret, and it is torn down on every exit path: whether the wait ends in
\* success or after 45 failed attempts the cancellation signal is emitted,
\* and the goroutine then eventually ends, every fetch of it returning.
C14_StreamerTornDown ==
    /\ [](\A p \in Procs :
            IsCloud(p) =>
               /\ invoked[p] > 0 => spc[p] # "none"
               /\ pc[p] = "returned" => ctxDone[p]
               /\ (pc[p] = "done" /\ ret[p] # Nil) => invoked[p] = GetCloudConfigAttempts)
    /\ \A p \in Procs : (IsCloud(p) /\ pc[p] = "done") ~> ctxDone[p]
    /\ \A p \in Procs : (IsCloud(p) /\ ctxDone[p]) ~> (spc[p] = "exited")

\* The secret was not there in any of the 45 attempts; the wait returned the
\* error and the goroutine has ended.
C14_Witness ==
    \E p \in Procs :
        /\ IsCloud(p)
        /\ pc[p] = "returned"
        /\ ret[p] = NotFound
        /\ invoked[p] = GetCloudConfigAttempts
        /\ ctxDone[p]
        /\ spc[p] = "exited"

\* Both runs have been through the same number of attempts, given the same
\* answers to their secret fetches.
SameOutcomes == Finished(1) /\ Finished(2) /\ attempt[1] = attempt[2]

\* C13: the streamer never influences the outcome of the primary wait: two
\* runs given the same sequence of secret-fetch outcomes return the same value
\* and the same error after the same number of secret-fetch attempts, whatever
\* the fetches of their streamers do.
C13_StreamerDoesNotInterfere ==
    SameOutcomes =>
        /\ lastErr[1] = lastErr[2]
        /\ val[1] = val[2]
        /\ invoked[1] = invoked[2]
        /\ sleeps[1] = sleeps[2]
        /\ (pc[1] = "sleep") <=> (pc[2] = "sleep")
        /\ (pc[1] # "sleep") => ret[1] = ret[2]
        /\ (pc[1] # "sleep" /\ ret[1] = Nil) => val[1] = CloudData(local[1][1].secret)

\* Both runs have returned the secret found on the third attempt; the
\* streamer of one has ended without a single late fetch, the streamer of the
\* other is still in a fetch begun after the cancellation.
C13_Witness ==
    /\ pc[1] = "returned" /\ pc[2] = "returned"
    /\ ret[1] = Nil
    /\ invoked[1] = 3
    /\ val[2] # EmptyString
    /\ spc[1] = "exited" /\ lateFetches[1] = 0
    /\ spc[2] = "fetching" /\ lateFetches[2] = 1

(***************************************************************************)
(* Properties of all the exposed functions.                                *)
(***************************************************************************)
Exposed(p) == op[p].kind # "none"

\* The function has returned to its caller.
Returned(p) == IF IsCloud(p) THEN pc[p] = "returned" ELSE pc[p] = "done"

\* The retry loop of the function has ended.
LoopEnded(p) == pc[p] \in {"done", "returned"}

\* The attempt budget the claim gives each function.
Budget(p) ==
    IF op[p].kind \in {"GetCloudConfig", "CreateNodeGroup", "DeleteNode", "DeleteNodeGroup"}
      THEN 45
    ELSE IF op[p].kind = "GetNodeGroupTemplates" THEN 10
    ELSE 100

\* C17: every exposed function terminates, every API call returning: it
\* returns success or a final error after at most its budget of attempts (45
\* for GetCloudConfig, CreateNodeGroup, DeleteNode and DeleteNodeGroup, 100 for
\* the three readiness waits, 10 for GetNodeGroupTemplates), and its attempts
\* are strictly sequential, never overlapping.
C17_TerminatesWithinBudget ==
    /\ [](\A p \in Procs :
            Exposed(p) =>
               /\ invoked[p] <= Budget(p)
               /\ attempt[p] <= Budget(p)
               /\ invoked[p] \in {attempt[p] - 1, attempt[p]}
               /\ (pc[p] = "sleep" \/ LoopEnded(p)) => invoked[p] = attempt[p]
               /\ (LoopEnded(p) /\ ret[p] # Nil) => invoked[p] = Budget(p)
               /\ pc[p] = "sleep" => (lastErr[p] # Nil /\ invoked[p] < Budget(p)))
    /\ [][\A p \in Procs :
            (Exposed(p) /\ invoked'[p] # invoked[p]) =>
               \* attempt k + 1 begins only once attempt k has returned, failed
               /\ invoked'[p] = invoked[p] + 1
               /\ invoked'[p] = attempt[p]
               /\ pc[p] = "attempt"
               /\ invoked[p] > 0 => lastErr[p] # Nil]_vars
    /\ \A p \in Procs : Exposed(p) ~> Returned(p)

\* GetNodeGroupTemplates has returned the error of its 10th failed attempt.
C17_Witness ==
    \E p \in Procs :
        /\ IsTemplates(p)
        /\ Returned(p)
        /\ ret[p] = Transient
        /\ invoked[p] = 10
        /\ sleeps[p] = 9

ReadOnly(p) ==
    op[p].kind \in {"WaitForSingleNodeBecomeReady", "WaitForNodesBecomeReady",
                    "WaitForNodesListBecomeReady", "GetNodeGroupTemplates", "GetCloudConfig"}

\* C20: the read-only functions (the three readiness waits,
\* GetNodeGroupTemplates and GetCloudConfig) issue only get and list calls,
\* never a create, patch or delete, over any number of attempts and whether
\* they end in success or in exhaustion: no step of theirs changes an object
\* of the cluster.
C20_ReadOnlyOperations ==
    /\ [](\A p \in Procs :
            ReadOnly(p) => \A i \in DOMAIN calls[p] : calls[p][i].verb \in {"get", "list"})
    /\ [][\A p \in Procs :
            ReadOnly(p) =>
               /\ UNCHANGED <<nodegroups, nodes, secrets>>
               /\ calls'[p] # calls[p] =>
                     (calls'[p] = <<>> \/ calls'[p][Len(calls'[p])].verb \in {"get", "list"})]_vars

\* GetCloudConfig has returned the secret it found on its second attempt, and
\* the secret is still in the cluster.
C20_Witness ==
    \E p \in Procs :
        /\ IsCloud(p)
        /\ Returned(p)
        /\ ret[p] = Nil
        /\ invoked[p] = 2
        /\ val[p] = CloudData(secrets["ng-1"])
        /\ secrets["ng-1"].exists

====
